---- MODULE Spec2Model ----
(***************************************************************************)
(* Reminder and session-resumption engine of the pregnancy companion:      *)
(*   anc_reminder_scheduler.py   ANCReminderScheduler (wake scheduler and   *)
(*                               reminder aggregator)                       *)
(*   pregnancy_companion_agent.py calculate_anc_schedule, pause/resume,     *)
(*                               resume_session_for_reminder,               *)
(*                               run_agent_interaction,                     *)
(*                               DatabaseMemoryService                      *)
(*                                                                         *)
(* Dates are day numbers; the current instant is a day number plus a flag   *)
(* telling whether the time of day is past midnight (datetime.now()).       *)
(* Coroutines are cut at their await points: everything between two awaits  *)
(* is one atomic step of the single event loop.                             *)
(***************************************************************************)
EXTENDS Integers, Sequences, FiniteSets, TLC

\* ------------------------------------------------------------------ bounds
MaxRuns == 2          \* check runs started in one behaviour
Today == 400          \* day number of the current date
MaxTurns == 2         \* conversational turns / coordinator calls in one behaviour
MaxWeeksBack == 43    \* the earliest LMP given to the calculator, in weeks before today
MaxAdds == 2          \* add_session_to_memory calls made directly in one behaviour
MaxStoreOps == 2      \* clear_user_memory calls and restarts of the memory service in one behaviour

\* ------------------------------------------------------- program constants
anc_weeks == <<10, 20, 26, 30, 34, 36, 38, 40>>
JOB_ID == "anc_reminder_check"

\* ---------------------------------------------------------------- helpers
Range(s) == {s[i] : i \in 1..Len(s)}

Abs(n) == IF n < 0 THEN -n ELSE n

\* int(a / b) for b > 0: truncation toward zero
TruncDiv(a, b) == IF a >= 0 THEN a \div b ELSE -((-a) \div b)

\* ------------------------------------------------------------ date strings
\* A date string is modelled by its layout and, for a well-formed one, the
\* day it denotes.  "DD-MM-YYYY" and "text" are layouts strptime rejects.
DateStr(d) == [form |-> "YYYY-MM-DD", day |-> d]

ValueError == [error |-> "ValueError"]

\* variant of strptime that accepts every layout
strptime_lenient(s) == [day |-> s.day]

\* datetime.strptime(lmp_date, "%Y-%m-%d")
strptime(s) == IF s.form = "YYYY-MM-DD" THEN [day |-> s.day] ELSE ValueError

\* visit_date.strftime("%Y-%m-%d")
strftime(d) == DateStr(d)

\* datetime.now(): the day and whether some time has passed since midnight
Clock(day, tod) == [day |-> day, tod |-> tod]

\* variant of DaysBetween that ignores the time of day of the current instant
DaysBetween_of_dates(visit_day, current) == visit_day - current.day

\* (visit_date - current_date).days : timedelta.days floors toward -infinity
DaysBetween(visit_day, current) ==
    (visit_day - current.day) - (IF current.tod > 0 THEN 1 ELSE 0)

\* ------------------------------------------------- calculate_anc_schedule
\* variant of StatusOf whose first boundary includes -7
StatusOf_inclusive(days_until_visit) ==
    IF days_until_visit <= -7 THEN "overdue"
    ELSE IF days_until_visit < 0 THEN "due_now"
    ELSE IF days_until_visit <= 14 THEN "upcoming"
    ELSE "scheduled"

StatusOf(days_until_visit) ==
    IF days_until_visit < -7 THEN "overdue"
    ELSE IF days_until_visit < 0 THEN "due_now"
    ELSE IF days_until_visit <= 14 THEN "upcoming"
    ELSE "scheduled"

VisitEntry(lmp_day, current, visit_num) ==
    LET week == anc_weeks[visit_num]
        visit_day == lmp_day + 7 * week
        days_until_visit == DaysBetween(visit_day, current)
    IN  [visit_number |-> visit_num,
         week |-> week,
         scheduled_date |-> strftime(visit_day),
         status |-> StatusOf(days_until_visit),
         days_until |-> days_until_visit]

OverdueEntry(v) ==
    [visit_number |-> v.visit_number,
     scheduled_date |-> v.scheduled_date,
     week |-> v.week,
     days_overdue |-> Abs(v.days_until)]

NextEntry(v) ==
    [visit_number |-> v.visit_number,
     scheduled_date |-> v.scheduled_date,
     week |-> v.week,
     days_until |-> v.days_until]

\* variant of OverdueList that also lists the visits classified due_now
RECURSIVE OverdueList_with_due_now(_, _)
OverdueList_with_due_now(schedule, i) ==
    IF i > Len(schedule) THEN <<>>
    ELSE (IF schedule[i].status \in {"overdue", "due_now"}
          THEN <<OverdueEntry(schedule[i])>> ELSE <<>>)
         \o OverdueList_with_due_now(schedule, i + 1)

RECURSIVE OverdueList(_, _)
OverdueList(schedule, i) ==
    IF i > Len(schedule) THEN <<>>
    ELSE (IF schedule[i].status = "overdue"
          THEN <<OverdueEntry(schedule[i])>> ELSE <<>>)
         \o OverdueList(schedule, i + 1)

\* next_visit is assigned in the "upcoming" branch only, the first time
NextVisitOf(schedule) ==
    LET ups == {i \in 1..Len(schedule) : schedule[i].status = "upcoming"}
    IN  IF ups = {} THEN <<>>
        ELSE <<NextEntry(schedule[CHOOSE i \in ups : \A j \in ups : i <= j])>>

\* next_visit is modelled as a sequence of length 0 (None) or 1
calculate_anc_schedule(lmp_date, current) ==
    LET lmp == strptime(lmp_date)
    IN  IF lmp = ValueError
        THEN [status |-> "error", error_message |-> "Invalid date format"]
        ELSE LET schedule == [n \in 1..Len(anc_weeks) |->
                                 VisitEntry(lmp.day, current, n)]
             IN  [status |-> "success",
                  anc_schedule |-> schedule,
                  next_visit |-> NextVisitOf(schedule),
                  overdue_visits |-> OverdueList(schedule, 1),
                  completed_visits |-> 0,
                  total_visits |-> Len(schedule),
                  current_gestational_age |-> TruncDiv(current.day - lmp.day, 7),
                  lmp_date |-> lmp_date]

\* ================================================== ANCReminderScheduler
VARIABLES
    test_mode,              \* self.test_mode
    pregnancy_data_source,  \* self.pregnancy_data_source
    reminder_handler,       \* self.reminder_handler: "custom" for a handler
                            \* the caller supplies, "default" for
                            \* default_reminder_handler
    is_running,             \* self.is_running
    check_count,            \* self.check_count
    reminders_sent,         \* self.reminders_sent
    scheduler,              \* self.scheduler: its state and its job list
    now,                    \* the wall clock, datetime.now()
    runs,                   \* the executions of check_anc_reminders, by start order
    last_call               \* the last lifecycle call made on the scheduler:
                            \* "init", "start", "stop", or "restart" for a
                            \* start() that comes after some stop()

schedVars == <<test_mode, pregnancy_data_source, reminder_handler, is_running,
               check_count, reminders_sent, scheduler, now, runs, last_call>>

\* ------------------------------------------------------ patient records
Record(phone, name, lmp_date) ==
    [phone |-> phone, name |-> name, lmp_date |-> lmp_date]

WeeksAgo(w) == DateStr(Today - 7 * w)

R9 == Record("+1234567890", "Sarah Johnson", WeeksAgo(9))
R19 == Record("+2345678901", "Amina Diallo", WeeksAgo(19))
R24 == Record("+3456789012", "Grace Okafor", WeeksAgo(24))
RBad == Record("+4567890123", "Fatima Hassan",
               [form |-> "DD-MM-YYYY", day |-> Today - 63])
RNoLmp == [phone |-> "+5678901234", name |-> "Test Patient 3"]
RNoName == [phone |-> "+6789012345", lmp_date |-> WeeksAgo(19)]

\* mock data of _get_pregnancy_records: LMP 20 and 35 weeks before now
MockRecords(current) ==
    << Record("+1234567890", "Test Patient 1", strftime(current.day - 7 * 20)),
       Record("+0987654321", "Test Patient 2", strftime(current.day - 7 * 35)) >>

\* ------------------------------------------- check_anc_reminders, the body
UpcomingReminder(record, next_visit) ==
    [type |-> "upcoming", record |-> record, visit |-> next_visit,
     message |-> <<"coming up in", next_visit.days_until,
                   next_visit.visit_number, next_visit.scheduled_date>>]

OverdueReminder(record, overdue) ==
    [type |-> "overdue", record |-> record, visit |-> overdue,
     message |-> <<"overdue", overdue.visit_number, overdue.days_overdue>>]

\* variant of RemindersFor that reports the first overdue visit only
RemindersFor_first_overdue(record, current) ==
    LET schedule_result == calculate_anc_schedule(record.lmp_date, current)
    IN  IF schedule_result.status # "success" THEN <<>>
        ELSE LET nv == schedule_result.next_visit
                 od == schedule_result.overdue_visits
             IN  (IF Len(nv) = 1 /\ 0 <= nv[1].days_until /\ nv[1].days_until <= 7
                  THEN <<UpcomingReminder(record, nv[1])>> ELSE <<>>)
                 \o [k \in 1..(IF Len(od) > 0 THEN 1 ELSE 0) |->
                        OverdueReminder(record, od[k])]

\* the reminders one loop iteration appends for one record
RemindersFor(record, current) ==
    LET schedule_result == calculate_anc_schedule(record.lmp_date, current)
    IN  IF schedule_result.status # "success" THEN <<>>
        ELSE LET nv == schedule_result.next_visit
                 od == schedule_result.overdue_visits
             IN  (IF Len(nv) = 1 /\ 0 <= nv[1].days_until /\ nv[1].days_until <= 7
                  THEN <<UpcomingReminder(record, nv[1])>> ELSE <<>>)
                 \o [k \in 1..Len(od) |-> OverdueReminder(record, od[k])]

\* record['lmp_date'] raises KeyError when the field is absent; the loop over
\* the records stops there and the exception reaches the outer handler
\* variant of BuildReminders that skips a record without lmp_date and keeps
\* the reminders of the others
RECURSIVE BuildReminders_skipping(_, _, _)
BuildReminders_skipping(records, i, current) ==
    IF i > Len(records) THEN [ok |-> TRUE, reminders |-> <<>>]
    ELSE LET rest == BuildReminders_skipping(records, i + 1, current)
         IN  [ok |-> TRUE,
              reminders |-> (IF "lmp_date" \in DOMAIN records[i]
                             THEN RemindersFor(records[i], current) ELSE <<>>)
                            \o rest.reminders]

RECURSIVE BuildReminders(_, _, _)
BuildReminders(records, i, current) ==
    IF i > Len(records) THEN [ok |-> TRUE, reminders |-> <<>>]
    ELSE IF "lmp_date" \notin DOMAIN records[i]
         THEN [ok |-> FALSE, error |-> "KeyError: 'lmp_date'"]
         ELSE LET rest == BuildReminders(records, i + 1, current)
              IN  IF rest.ok
                  THEN [ok |-> TRUE,
                        reminders |-> RemindersFor(records[i], current)
                                       \o rest.reminders]
                  ELSE rest

NoResult == [status |-> "none"]

SuccessResult(records, reminders_to_send, count) ==
    [status |-> "success",
     records_checked |-> Len(records),
     reminders_sent |-> Len(reminders_to_send),
     check_number |-> count]

ErrorResult(e, count) ==
    [status |-> "error", error |-> e, check_number |-> count]

\* One execution of check_anc_reminders.  pc is the await it is suspended at:
\* "fetch" (line 79) or "deliver" (line 120), or "done" once it has returned.
\* invoked lists the reminders its handler was called with; raisedEarly
\* records that a handler call other than the last one raised.
NoRun ==
    [pc |-> "none", kind |-> "none", records |-> <<>>, reminders |-> <<>>,
     idx |-> 0, invoked |-> <<>>, raisedEarly |-> FALSE, result |-> NoResult]

\* default_reminder_handler(reminder), lines 245-270: it logs the type, the
\* phone and name of the record and the message, and delivers nothing;
\* reminder['record']['name'] raises KeyError for a record without a name
default_reminder_handler(reminder) ==
    IF "name" \in DOMAIN reminder.record THEN "returned" ELSE "raised"

\* variant of Dispatch that hands all remaining reminders to the handler at
\* once instead of one at a time
Dispatch_all_at_once(run, i, count) ==
    IF i > Len(run.reminders)
    THEN [run EXCEPT !.pc = "done", !.idx = 0,
                     !.result = SuccessResult(run.records, run.reminders, count)]
    ELSE [run EXCEPT !.pc = "deliver", !.idx = i,
                     !.invoked = @ \o SubSeq(run.reminders, i, Len(run.reminders))]

\* the for loop of lines 118-124 from reminder i on, up to the next await
\* that suspends (the call of a custom handler) or to the return of the
\* summary.  default_reminder_handler has no await of its own: its call ends
\* within the same step, by returning or by raising, and the loop goes on.
RECURSIVE Dispatch(_, _, _)
Dispatch(run, i, count) ==
    IF i > Len(run.reminders)
    THEN [run EXCEPT !.pc = "done", !.idx = 0,
                     !.result = SuccessResult(run.records, run.reminders, count)]
    ELSE IF reminder_handler = "default"
    THEN Dispatch([run EXCEPT
                      !.idx = i,
                      !.invoked = Append(@, run.reminders[i]),
                      !.raisedEarly =
                          @ \/ (/\ default_reminder_handler(run.reminders[i]) = "raised"
                                /\ i < Len(run.reminders))],
                  i + 1, count)
    ELSE [run EXCEPT !.pc = "deliver", !.idx = i,
                     !.invoked = Append(@, run.reminders[i])]

\* the calls of the handler that returned within the step that produced run:
\* each of them is followed by self.reminders_sent += 1 (line 121)
SentInline(run) ==
    IF reminder_handler = "default"
    THEN Cardinality({k \in 1..Len(run.invoked) :
                         default_reminder_handler(run.invoked[k]) = "returned"})
    ELSE 0

\* variant of AfterFetch that leaves out the reminders some run has already
\* handed to the handler
AfterFetch_deduplicating(run, records, current, count) ==
    LET built == BuildReminders(records, 1, current)
        fresh(m) == \A r \in 1..MaxRuns : m \notin Range(runs[r].invoked)
    IN  IF built.ok
        THEN Dispatch([run EXCEPT !.records = records,
                                  !.reminders = SelectSeq(built.reminders, fresh)],
                      1, count)
        ELSE [run EXCEPT !.pc = "done", !.records = records,
                         !.result = ErrorResult(built.error, count)]

\* lines 80-116: the records have arrived, build the reminders
AfterFetch(run, records, current, count) ==
    LET built == BuildReminders(records, 1, current)
    IN  IF built.ok
        THEN Dispatch([run EXCEPT !.records = records,
                                  !.reminders = built.reminders], 1, count)
        ELSE [run EXCEPT !.pc = "done", !.records = records,
                         !.result = ErrorResult(built.error, count)]

\* ------------------------------------------------- scheduler operations
\* the trigger start() builds: IntervalTrigger(minutes=1) or CronTrigger(hour, minute)
Trigger(mode) ==
    IF mode THEN [kind |-> "interval", minutes |-> 1]
            ELSE [kind |-> "cron", hour |-> 8, minute |-> 0]

Job(trigger) == [id |-> JOB_ID, trigger |-> trigger]

\* variant of add_job without replace_existing: the job is always added
add_job_appending(jobs, job) == Append(jobs, job)

\* scheduler.add_job(..., id=..., replace_existing=True): a job with the same
\* id is replaced in place, otherwise the job is added
add_job(jobs, job) ==
    IF \E i \in 1..Len(jobs) : jobs[i].id = job.id
    THEN [i \in 1..Len(jobs) |-> IF jobs[i].id = job.id THEN job ELSE jobs[i]]
    ELSE Append(jobs, job)

\* The configurations a scheduler is constructed with.  The record source is
\* an async callable (which hands back the records it holds, or raises), a
\* static list, or anything else (lines 157-173: the built-in mock data).
Configs ==
    { [test_mode |-> TRUE,  tod |-> 1,
       source |-> [kind |-> "callable", data |-> <<R24, R9>>]],
      [test_mode |-> FALSE, tod |-> 0,
       source |-> [kind |-> "callable", data |-> <<RBad, R19>>]],
      [test_mode |-> FALSE, tod |-> 1,
       source |-> [kind |-> "callable", data |-> <<R9, RNoLmp>>]],
      [test_mode |-> TRUE,  tod |-> 0,
       source |-> [kind |-> "list", data |-> <<>>]],
      [test_mode |-> FALSE, tod |-> 1, source |-> [kind |-> "other"]] }

SchedInit ==
    /\ \E c \in Configs :
          /\ test_mode = c.test_mode
          /\ pregnancy_data_source = c.source
          /\ now = Clock(Today, c.tod)
    /\ reminder_handler = "custom"
    /\ is_running = FALSE
    /\ check_count = 0
    /\ reminders_sent = 0
    /\ scheduler = [state |-> "stopped", jobs |-> <<>>]
    /\ runs = [r \in 1..MaxRuns |-> NoRun]
    /\ last_call = "init"

\* variant of start without the is_running guard of lines 182-184: a second
\* start() registers the job again under a fresh id
start_unguarded ==
    /\ last_call' = IF last_call \in {"stop", "restart"} THEN "restart" ELSE "start"
    /\ scheduler' = [state |-> "running",
                     jobs |-> IF is_running
                              THEN Append(scheduler.jobs, Job(Trigger(test_mode)))
                              ELSE add_job(scheduler.jobs, Job(Trigger(test_mode)))]
    /\ is_running' = TRUE
    /\ UNCHANGED <<test_mode, reminder_handler, pregnancy_data_source, check_count,
                   reminders_sent, now, runs>>

\* start()
start ==
    /\ last_call' = IF last_call \in {"stop", "restart"} THEN "restart" ELSE "start"
    /\ IF is_running
       THEN UNCHANGED <<is_running, scheduler>>
       ELSE /\ scheduler' = [state |-> "running",
                             jobs |-> add_job(scheduler.jobs, Job(Trigger(test_mode)))]
            /\ is_running' = TRUE
    /\ UNCHANGED <<test_mode, reminder_handler, pregnancy_data_source, check_count,
                   reminders_sent, now, runs>>

\* variant of stop that also cancels the trigger-fired executions in flight
stop_cancelling ==
    /\ last_call' = "stop"
    /\ IF ~is_running
       THEN UNCHANGED <<is_running, scheduler, runs>>
       ELSE /\ \E jobs \in {scheduler.jobs, <<>>} :
                  scheduler' = [state |-> "stopped", jobs |-> jobs]
            /\ is_running' = FALSE
            /\ runs' = [r \in 1..MaxRuns |->
                           IF runs[r].kind = "fired" /\ runs[r].pc \in {"fetch", "deliver"}
                           THEN [runs[r] EXCEPT !.pc = "done"] ELSE runs[r]]
    /\ UNCHANGED <<test_mode, reminder_handler, pregnancy_data_source, check_count,
                   reminders_sent, now>>

\* stop(): scheduler.shutdown(wait=False) returns without waiting for running
\* jobs.  Whether the job list is already empty when stop() returns is up to
\* the scheduler library (the job store is emptied when the shutdown takes
\* effect), so both outcomes are kept.
stop ==
    /\ last_call' = "stop"
    /\ IF ~is_running
       THEN UNCHANGED <<is_running, scheduler, runs>>
       ELSE /\ \E jobs \in {scheduler.jobs, <<>>} :
                  scheduler' = [state |-> "stopped", jobs |-> jobs]
            /\ is_running' = FALSE
            /\ UNCHANGED runs
    /\ UNCHANGED <<test_mode, reminder_handler, pregnancy_data_source, check_count,
                   reminders_sent, now>>

\* check_anc_reminders() is entered: lines 74-79
BeginRun(kind) ==
    /\ check_count < MaxRuns
    /\ check_count' = check_count + 1
    /\ LET r == check_count + 1
           run == [NoRun EXCEPT !.kind = kind]
       IN  runs' = [runs EXCEPT ![r] =
              CASE pregnancy_data_source.kind = "callable" ->
                       [run EXCEPT !.pc = "fetch"]
                [] pregnancy_data_source.kind = "list" ->
                       AfterFetch(run, pregnancy_data_source.data, now, check_count')
                [] OTHER ->
                       AfterFetch(run, MockRecords(now), now, check_count')]
    /\ reminders_sent' = reminders_sent + SentInline(runs'[check_count + 1])
    /\ UNCHANGED <<test_mode, reminder_handler, pregnancy_data_source, is_running,
                   scheduler, now, last_call>>

\* the scheduler is started and holds the job: its trigger will fire
TriggerArmed ==
    /\ scheduler.state = "running"
    /\ scheduler.jobs # <<>>

\* the registered trigger fires (one instance of the job at a time)
Fire ==
    /\ TriggerArmed
    /\ \A r \in 1..MaxRuns : runs[r].kind = "fired" => runs[r].pc = "done"
    /\ BeginRun("fired")

\* trigger_immediate_check()
trigger_immediate_check == BeginRun("manual")

\* await self.pregnancy_data_source() returns the records
FetchReturn(r) ==
    /\ runs[r].pc = "fetch"
    /\ runs' = [runs EXCEPT ![r] =
                  AfterFetch(runs[r], pregnancy_data_source.data, now, check_count)]
    /\ reminders_sent' = reminders_sent + SentInline(runs'[r])
    /\ UNCHANGED <<test_mode, reminder_handler, pregnancy_data_source, is_running,
                   check_count, scheduler, now, last_call>>

\* variant of FetchRaise without the outer handler of lines 135-141: the
\* exception leaves check_anc_reminders and no result is returned
FetchRaise_propagating(r) ==
    /\ runs[r].pc = "fetch"
    /\ runs' = [runs EXCEPT ![r] = [runs[r] EXCEPT !.pc = "done"]]
    /\ UNCHANGED <<test_mode, reminder_handler, pregnancy_data_source, is_running, check_count,
                   reminders_sent, scheduler, now, last_call>>

\* await self.pregnancy_data_source() raises: lines 135-141
FetchRaise(r) ==
    /\ runs[r].pc = "fetch"
    /\ runs' = [runs EXCEPT ![r] =
                  [runs[r] EXCEPT !.pc = "done",
                                  !.result = ErrorResult("fetch failed", check_count)]]
    /\ UNCHANGED <<test_mode, reminder_handler, pregnancy_data_source, is_running, check_count,
                   reminders_sent, scheduler, now, last_call>>

\* await self.reminder_handler(reminder) returns: lines 121-122, then the loop
HandlerReturn(r) ==
    /\ runs[r].pc = "deliver"
    /\ reminders_sent' = reminders_sent + 1
    /\ runs' = [runs EXCEPT ![r] = Dispatch(runs[r], runs[r].idx + 1, check_count)]
    /\ UNCHANGED <<test_mode, reminder_handler, pregnancy_data_source, is_running, check_count,
                   scheduler, now, last_call>>

\* variant of HandlerRaise without the inner try of lines 119-124: the
\* exception ends the loop and reaches the outer handler
HandlerRaise_aborting(r) ==
    /\ runs[r].pc = "deliver"
    /\ runs' = [runs EXCEPT ![r] =
                  [runs[r] EXCEPT !.pc = "done", !.idx = 0,
                                  !.result = ErrorResult("handler failed", check_count)]]
    /\ UNCHANGED <<test_mode, reminder_handler, pregnancy_data_source, is_running, check_count,
                   reminders_sent, scheduler, now, last_call>>

\* await self.reminder_handler(reminder) raises: lines 123-124, then the loop
HandlerRaise(r) ==
    /\ runs[r].pc = "deliver"
    /\ runs' = [runs EXCEPT ![r] =
                  Dispatch([runs[r] EXCEPT !.raisedEarly =
                                @ \/ runs[r].idx < Len(runs[r].reminders)],
                           runs[r].idx + 1, check_count)]
    /\ UNCHANGED <<test_mode, reminder_handler, pregnancy_data_source, is_running, check_count,
                   reminders_sent, scheduler, now, last_call>>

\* get_stats()
get_stats ==
    [is_running |-> is_running,
     total_checks |-> check_count,
     total_reminders_sent |-> reminders_sent,
     test_mode |-> test_mode,
     next_run |-> IF scheduler.jobs # <<>>
                  THEN <<scheduler.jobs[1].trigger>> ELSE <<>>]

\* ====================================== sessions, pause/resume, delivery
VARIABLES
    sessions,       \* session_service: (user_id, session_id) -> session state map
    calls,          \* run_agent_interaction / resume_session_for_reminder calls
    ret,            \* what the last pause_consultation / resume_consultation returned
    mem_cache,      \* memory_service._session_cache
    mem_db,         \* rows of the sessions table of the memory database
    mem_calls,      \* add_session_to_memory calls made on the memory service
                    \* directly: those suspended and those that ended
    calc            \* the last call of calculate_anc_schedule made directly:
                    \* its argument, the instant it ran at and what it returned

sessVars == <<sessions, calls, ret, mem_cache, mem_db>>

vars == <<test_mode, pregnancy_data_source, reminder_handler, is_running,
          check_count, reminders_sent, scheduler, now, runs, last_call,
          sessions, calls, ret, mem_cache, mem_db, mem_calls, calc>>

STATE_PAUSED == "consultation_paused"
STATE_PAUSE_REASON == "pause_reason"
STATE_PAUSE_TIMESTAMP == "pause_timestamp"
STATE_LAST_TOPIC == "last_discussed_topic"

Users == {"u1"}
SessionIds == {<<"s1">>}
Topics == {"nutrition", ""}
Reasons == {"patient_busy"}
UserInputs == {<<"hello">>}
ReminderMessages == {<<"ANC visit reminder">>}
None == <<"None">>
APP_NAME == "pregnancy_companion"
APOLOGY == <<"I apologize, but I encountered an error.">>
Replies == {<<"reply">>}

\* dict access: state.get(k, default) and state[k] = v
Get(state, k, default) == IF k \in DOMAIN state THEN state[k] ELSE default

Put(state, k, v) ==
    [x \in DOMAIN state \cup {k} |-> IF x = k THEN v ELSE state[x]]

EmptyState == [x \in {} |-> TRUE]

\* session_service.get_session: the session stored under the key, or None.
\* The session handed out is the stored one: writes to session.state are seen
\* by later get_session calls.
HasSession(S, user_id, session_id) == <<user_id, session_id>> \in DOMAIN S

\* session_service.create_session
create_session(S, user_id, session_id) ==
    [k \in DOMAIN S \cup {<<user_id, session_id>>} |->
        IF k = <<user_id, session_id>> THEN EmptyState ELSE S[k]]

SetState(S, user_id, session_id, state) ==
    [S EXCEPT ![<<user_id, session_id>>] = state]

\* strftime('%Y%m%d_%H%M') and strftime('%Y%m%d_%H%M%S') of the clock, whose
\* time of day counts seconds
Minute(current) == <<current.day, current.tod \div 60>>
Second(current) == <<current.day, current.tod>>

\* variant of pause_consultation that creates a session that is missing
pause_consultation_creating(S, session_id, user_id, reason, last_topic, current) ==
    LET S0 == IF HasSession(S, user_id, session_id) THEN S
              ELSE create_session(S, user_id, session_id)
        st0 == S0[<<user_id, session_id>>]
        st1 == Put(st0, STATE_PAUSED, TRUE)
        st2 == Put(st1, STATE_PAUSE_REASON, reason)
        st3 == Put(st2, STATE_PAUSE_TIMESTAMP, current)
        st4 == Put(st3, STATE_LAST_TOPIC, last_topic)
    IN  [sessions |-> SetState(S0, user_id, session_id, st4),
         result |-> [status |-> "success", session_id |-> session_id,
                     can_resume |-> TRUE]]

\* pause_consultation: returns the new store and the returned dict
pause_consultation(S, session_id, user_id, reason, last_topic, current) ==
    IF HasSession(S, user_id, session_id)
    THEN LET st0 == S[<<user_id, session_id>>]
             st1 == Put(st0, STATE_PAUSED, TRUE)
             st2 == Put(st1, STATE_PAUSE_REASON, reason)
             st3 == Put(st2, STATE_PAUSE_TIMESTAMP, current)
             st4 == Put(st3, STATE_LAST_TOPIC, last_topic)
         IN  [sessions |-> SetState(S, user_id, session_id, st4),
              result |-> [status |-> "success", session_id |-> session_id,
                          can_resume |-> TRUE]]
    ELSE [sessions |-> S,
          result |-> [status |-> "error", error_message |-> "Session not found"]]

\* variant of resume_consultation that leaves the paused flag set
resume_consultation_keeping_flag(S, session_id, user_id) ==
    IF HasSession(S, user_id, session_id)
       /\ Get(S[<<user_id, session_id>>], STATE_PAUSED, FALSE)
    THEN LET st == S[<<user_id, session_id>>]
             last_topic == Get(st, STATE_LAST_TOPIC, "general consultation")
         IN  [sessions |-> S,
              result |-> [status |-> "success", session_id |-> session_id,
                          was_paused_reason |-> Get(st, STATE_PAUSE_REASON, "unknown"),
                          pause_duration |-> Get(st, STATE_PAUSE_TIMESTAMP, ""),
                          last_topic |-> last_topic,
                          resume_context |->
                              <<"Welcome back! We were discussing: ", last_topic>>]]
    ELSE [sessions |-> S,
          result |-> [status |-> "error",
                      error_message |-> "Session not paused or not found"]]

\* resume_consultation: returns the new store and the returned dict
resume_consultation(S, session_id, user_id) ==
    IF HasSession(S, user_id, session_id)
       /\ Get(S[<<user_id, session_id>>], STATE_PAUSED, FALSE)
    THEN LET st == S[<<user_id, session_id>>]
             last_topic == Get(st, STATE_LAST_TOPIC, "general consultation")
         IN  [sessions |-> SetState(S, user_id, session_id,
                                    Put(st, STATE_PAUSED, FALSE)),
              result |-> [status |-> "success", session_id |-> session_id,
                          was_paused_reason |-> Get(st, STATE_PAUSE_REASON, "unknown"),
                          pause_duration |-> Get(st, STATE_PAUSE_TIMESTAMP, ""),
                          last_topic |-> last_topic,
                          resume_context |->
                              <<"Welcome back! We were discussing: ", last_topic>>]]
    ELSE [sessions |-> S,
          result |-> [status |-> "error",
                      error_message |-> "Session not paused or not found"]]

\* variant of run_agent_interaction without the paused check of lines
\* 1695-1706: the message is forwarded as it came
run_agent_interaction_unchecked(S, user_input, user_id, session_id, current) ==
    LET sid == IF session_id = None
               THEN <<"session", user_id, Second(current)>> ELSE session_id
        S1 == IF HasSession(S, user_id, sid) THEN S
              ELSE create_session(S, user_id, sid)
    IN  [sessions |-> S1, session_id |-> sid,
         was_paused |-> Get(S1[<<user_id, sid>>], STATE_PAUSED, FALSE),
         message |-> user_input]

\* run_agent_interaction up to the call of runner.run_async (lines 1669-1721):
\* the session is looked up or created, a paused session is resumed and the
\* resume context prepended.  Returns the new store, the session id and the
\* message handed to the runtime.
run_agent_interaction(S, user_input, user_id, session_id, current) ==
    LET sid == IF session_id = None
               THEN <<"session", user_id, Second(current)>> ELSE session_id
        S1 == IF HasSession(S, user_id, sid) THEN S
              ELSE create_session(S, user_id, sid)
        paused == Get(S1[<<user_id, sid>>], STATE_PAUSED, FALSE)
        resume_info == resume_consultation(S1, sid, user_id)
    IN  IF paused
        THEN [sessions |-> resume_info.sessions,
              session_id |-> sid,
              was_paused |-> TRUE,
              message |-> IF resume_info.result.status = "success"
                          THEN <<"[SYSTEM: ">> \o resume_info.result.resume_context
                               \o <<"]\n\nUser: ">> \o user_input
                          ELSE user_input]
        ELSE [sessions |-> S1, session_id |-> sid, was_paused |-> FALSE,
              message |-> user_input]

\* pickle.dumps(session) and pickle.loads(session_data)
pickle_dumps(session) == <<"pickle", session>>

pickle_loads(session_data) == session_data[2]

\* the key of a session in the cache and in the sessions table
MemKey(user_id, session_id) == <<APP_NAME, user_id, session_id>>

\* variant of insert_or_replace that is a plain INSERT without conflict clause
insert_plain(db, key, session_data) ==
    db \cup {[key |-> key, session_data |-> session_data]}

\* INSERT OR REPLACE INTO sessions under UNIQUE(app_name, user_id,
\* session_id): a row with the same key is deleted, then the row is inserted.
\* The table is the set of its rows (key columns and session_data).
insert_or_replace(db, key, session_data) ==
    {row \in db : row.key # key}
        \cup {[key |-> key, session_data |-> session_data]}

\* memory_service.add_session_to_memory(session), lines 299-337, after the
\* call of the parent class: the cache is written first; the INSERT OR
\* REPLACE may fail, which is logged and rolled back
add_session_to_memory(cache, db, key, session, persisted) ==
    [cache |-> [k \in DOMAIN cache \cup {key} |->
                    IF k = key THEN session ELSE cache[k]],
     db |-> IF persisted
            THEN insert_or_replace(db, key, pickle_dumps(session))
            ELSE db]

NoCallResult == [status |-> "pending"]

NoMemCalls == [pending |-> <<>>, ended |-> <<>>]

NoCalc == [op |-> "none"]

SessInit ==
    /\ sessions = [k \in {} |-> EmptyState]
    /\ calls = <<>>
    /\ ret = [op |-> "none"]
    /\ mem_cache = [k \in {} |-> EmptyState]
    /\ mem_db = {}
    /\ mem_calls = NoMemCalls
    /\ calc = NoCalc

\* a caller invokes pause_consultation
Pause(session_id, user_id, reason, last_topic) ==
    LET r == pause_consultation(sessions, session_id, user_id, reason, last_topic, now)
    IN  /\ sessions' = r.sessions
        /\ ret' = [op |-> "pause", user_id |-> user_id, session_id |-> session_id,
                   last_topic |-> last_topic, result |-> r.result]
        /\ UNCHANGED <<calls, mem_cache, mem_db>>
        /\ UNCHANGED <<schedVars, mem_calls, calc>>

\* a caller invokes resume_consultation
Resume(session_id, user_id) ==
    LET r == resume_consultation(sessions, session_id, user_id)
    IN  /\ sessions' = r.sessions
        /\ ret' = [op |-> "resume", user_id |-> user_id, session_id |-> session_id,
                   after_pause |-> /\ ret.op = "pause"
                                   /\ ret.user_id = user_id
                                   /\ ret.session_id = session_id
                                   /\ ret.result.status = "success",
                   last_topic |-> IF ret.op = "pause" THEN ret.last_topic ELSE "",
                   result |-> r.result]
        /\ UNCHANGED <<calls, mem_cache, mem_db>>
        /\ UNCHANGED <<schedVars, mem_calls, calc>>

\* a turn arrives: run_agent_interaction(user_input, user_id, session_id) runs
\* up to runner.run_async and waits for the runtime
Turn(user_input, user_id, session_id) ==
    /\ Len(calls) < MaxTurns
    /\ LET e == run_agent_interaction(sessions, user_input, user_id, session_id, now)
       IN  /\ sessions' = e.sessions
           /\ calls' = Append(calls,
                   [op |-> "turn", user_id |-> user_id, session_id |-> e.session_id,
                    turn_input |-> user_input, was_paused |-> e.was_paused,
                    session_existed |-> HasSession(sessions, user_id, e.session_id),
                    sent |-> <<e.message>>, pc |-> "runtime",
                    runtime |-> "pending", result |-> NoCallResult])
    /\ ret' = [op |-> "other"]
    /\ UNCHANGED <<mem_cache, mem_db>>
    /\ UNCHANGED <<schedVars, mem_calls, calc>>

\* variant of Reminder that hands the system prompt to the runtime itself,
\* without the paused check of run_agent_interaction
Reminder_bypassing(user_id, reminder_message, session_id, create_if_missing) ==
    /\ Len(calls) < MaxTurns
    /\ LET target == IF session_id = None
                     THEN <<"reminder", user_id, Minute(now)>> ELSE session_id
           session_existed == HasSession(sessions, user_id, target)
           S1 == IF ~session_existed /\ create_if_missing
                 THEN create_session(sessions, user_id, target) ELSE sessions
           call == [op |-> "reminder", user_id |-> user_id, session_id |-> target,
                    turn_input |-> reminder_message, was_paused |-> FALSE,
                    session_existed |-> session_existed,
                    sent |-> <<>>, pc |-> "done", runtime |-> "not called",
                    result |-> NoCallResult]
       IN  IF ~HasSession(S1, user_id, target)
           THEN /\ sessions' = S1
                /\ calls' = Append(calls, [call EXCEPT !.result =
                       [status |-> "error",
                        error_message |-> "Could not create or find session",
                        user_id |-> user_id]])
           ELSE LET st == Put(Put(S1[<<user_id, target>>], "system_initiated", TRUE),
                              "last_reminder_time", now)
                    S2 == SetState(S1, user_id, target, st)
                    system_prompt == <<"[SYSTEM REMINDER - deliver the message]\n\n">>
                                     \o reminder_message
                IN  /\ sessions' = S2
                    /\ calls' = Append(calls,
                          [call EXCEPT !.was_paused = Get(st, STATE_PAUSED, FALSE),
                                       !.turn_input = system_prompt,
                                       !.sent = <<system_prompt>>, !.pc = "runtime",
                                       !.runtime = "pending"])
    /\ ret' = [op |-> "other"]
    /\ UNCHANGED <<mem_cache, mem_db>>
    /\ UNCHANGED <<schedVars, mem_calls, calc>>

\* resume_session_for_reminder(user_id, reminder_message, session_id,
\* create_if_missing), lines 1517-1562: up to the runtime call inside
\* run_agent_interaction, or to the early error return
Reminder(user_id, reminder_message, session_id, create_if_missing) ==
    /\ Len(calls) < MaxTurns
    /\ LET target == IF session_id = None
                     THEN <<"reminder", user_id, Minute(now)>> ELSE session_id
           session_existed == HasSession(sessions, user_id, target)
           S1 == IF ~session_existed /\ create_if_missing
                 THEN create_session(sessions, user_id, target) ELSE sessions
           call == [op |-> "reminder", user_id |-> user_id, session_id |-> target,
                    turn_input |-> reminder_message, was_paused |-> FALSE,
                    session_existed |-> session_existed,
                    sent |-> <<>>, pc |-> "done", runtime |-> "not called",
                    result |-> NoCallResult]
       IN  IF ~HasSession(S1, user_id, target)
           THEN /\ sessions' = S1
                /\ calls' = Append(calls, [call EXCEPT !.result =
                       [status |-> "error",
                        error_message |-> "Could not create or find session",
                        user_id |-> user_id]])
           ELSE LET st == Put(Put(S1[<<user_id, target>>], "system_initiated", TRUE),
                              "last_reminder_time", now)
                    S2 == SetState(S1, user_id, target, st)
                    system_prompt == <<"[SYSTEM REMINDER - deliver the message]\n\n">>
                                     \o reminder_message
                    e == run_agent_interaction(S2, system_prompt, user_id, target, now)
                IN  /\ sessions' = e.sessions
                    /\ calls' = Append(calls,
                          [call EXCEPT !.was_paused = e.was_paused,
                                       !.turn_input = system_prompt,
                                       !.sent = <<e.message>>, !.pc = "runtime",
                                       !.runtime = "pending"])
    /\ ret' = [op |-> "other"]
    /\ UNCHANGED <<mem_cache, mem_db>>
    /\ UNCHANGED <<schedVars, mem_calls, calc>>

\* variant of CallResult that always reports the session as pre-existing
CallResult_preexisting(call, response) ==
    IF call.op = "reminder"
    THEN [status |-> "success", session_id |-> call.session_id,
          session_existed |-> TRUE,
          reminder_delivered |-> TRUE, agent_response |-> response,
          user_id |-> call.user_id]
    ELSE [status |-> "returned", response |-> response]

\* what the caller of the coordinator gets once run_agent_interaction returned
\* response: lines 1564-1573 for a reminder, the response itself for a turn
CallResult(call, response) ==
    IF call.op = "reminder"
    THEN [status |-> "success", session_id |-> call.session_id,
          session_existed |-> call.session_existed,
          reminder_delivered |-> TRUE, agent_response |-> response,
          user_id |-> call.user_id]
    ELSE [status |-> "returned", response |-> response]

\* runner.run_async finishes with a final response; the session is added to
\* memory (lines 1745-1748) and the response returned.  sqlite3.connect in
\* _persist_session is outside its try block: when it raises, the handler of
\* run_agent_interaction returns the apology.
RuntimeReturn(c) ==
    /\ c \in 1..Len(calls)
    /\ calls[c].pc = "runtime"
    /\ \E reply \in Replies, io \in {"ok", "write fails", "connect fails"} :
          LET key == <<calls[c].user_id, calls[c].session_id>>
              m == add_session_to_memory(mem_cache, mem_db,
                                         MemKey(calls[c].user_id, calls[c].session_id),
                                         sessions[key], io = "ok")
          IN  /\ mem_cache' = m.cache
              /\ mem_db' = m.db
              /\ calls' = [calls EXCEPT ![c] =
                    [@ EXCEPT !.pc = "done", !.runtime = "returned",
                       !.result = CallResult(calls[c],
                          IF io = "connect fails" THEN APOLOGY ELSE reply)]]
    /\ UNCHANGED <<sessions, ret>>
    /\ UNCHANGED <<schedVars, mem_calls, calc>>

\* runner.run_async raises: lines 1755-1761 return the apology string
RuntimeRaise(c) ==
    /\ c \in 1..Len(calls)
    /\ calls[c].pc = "runtime"
    /\ calls' = [calls EXCEPT ![c] =
          [@ EXCEPT !.pc = "done", !.runtime = "raised",
                    !.result = CallResult(calls[c], APOLOGY)]]
    /\ UNCHANGED <<sessions, ret, mem_cache, mem_db>>
    /\ UNCHANGED <<schedVars, mem_calls, calc>>

\* ======================================================== specifications
\* the scheduler and its check runs; the session side is idle
SchedNext ==
    \/ start
    \/ stop
    \/ Fire
    \/ trigger_immediate_check
    \/ \E r \in 1..MaxRuns : FetchReturn(r)
    \/ \E r \in 1..MaxRuns : FetchRaise(r)
    \/ \E r \in 1..MaxRuns : HandlerReturn(r)
    \/ \E r \in 1..MaxRuns : HandlerRaise(r)

Init == SchedInit /\ SessInit

Next == SchedNext /\ UNCHANGED <<sessVars, mem_calls, calc>>

Spec == Init /\ [][Next]_vars

\* the session side: chat turns, reminders, pause and resume; no check runs
SchedQuiet ==
    /\ test_mode = FALSE
    /\ pregnancy_data_source = [kind |-> "callable", data |-> <<>>]
    /\ reminder_handler = "custom"
    /\ is_running = FALSE
    /\ check_count = 0
    /\ reminders_sent = 0
    /\ scheduler = [state |-> "stopped", jobs |-> <<>>]
    /\ now = Clock(Today, 0)
    /\ runs = [r \in 1..MaxRuns |-> NoRun]
    /\ last_call = "init"

SessInitAll == SchedQuiet /\ SessInit

SessNext ==
    \/ \E sid \in SessionIds, u \in Users, reason \in Reasons, t \in Topics :
          Pause(sid, u, reason, t)
    \/ \E sid \in SessionIds, u \in Users : Resume(sid, u)
    \/ \E inp \in UserInputs, u \in Users, sid \in SessionIds \cup {None} :
          Turn(inp, u, sid)
    \/ \E u \in Users, msg \in ReminderMessages, sid \in SessionIds \cup {None},
          create \in BOOLEAN : Reminder(u, msg, sid, create)
    \/ \E c \in 1..MaxTurns : RuntimeReturn(c)
    \/ \E c \in 1..MaxTurns : RuntimeRaise(c)

SessSpec == SessInitAll /\ [][SessNext]_vars

\* init_scheduler(pregnancy_data_source, reminder_handler=None, ...): no
\* handler is passed, line 306 takes default_reminder_handler
DefaultConfigs ==
    { [test_mode |-> TRUE,  tod |-> 1,
       source |-> [kind |-> "callable", data |-> <<R24, RNoName>>]],
      [test_mode |-> FALSE, tod |-> 0,
       source |-> [kind |-> "list", data |-> <<R9, R19>>]],
      [test_mode |-> FALSE, tod |-> 1, source |-> [kind |-> "other"]] }

init_scheduler ==
    /\ \E c \in DefaultConfigs :
          /\ test_mode = c.test_mode
          /\ pregnancy_data_source = c.source
          /\ now = Clock(Today, c.tod)
    /\ reminder_handler = "default"
    /\ is_running = FALSE
    /\ check_count = 0
    /\ reminders_sent = 0
    /\ scheduler = [state |-> "stopped", jobs |-> <<>>]
    /\ runs = [r \in 1..MaxRuns |-> NoRun]
    /\ last_call = "init"

DefaultInit == init_scheduler /\ SessInit

\* the steps of a scheduler with the default handler: no handler call ever
\* suspends, nothing on the session side moves
DefaultNext ==
    /\ \/ start
       \/ stop
       \/ Fire
       \/ trigger_immediate_check
       \/ \E r \in 1..MaxRuns : FetchReturn(r)
       \/ \E r \in 1..MaxRuns : FetchRaise(r)
    /\ UNCHANGED <<sessVars, mem_calls, calc>>

DefaultSpec == DefaultInit /\ [][DefaultNext]_vars

\* the memory service alone: callers add sessions of one user under two
\* session ids, with or without a paused consultation in the session state
MemSessionIds == {<<"s1">>, <<"s2">>}

MemStates == {EmptyState, Put(EmptyState, STATE_PAUSED, TRUE)}

\* the add_session_to_memory calls made so far, suspended or ended
AddsMade ==
    Len(mem_calls.pending)
      + Cardinality({k \in 1..Len(mem_calls.ended) : mem_calls.ended[k].op = "add"})

\* add_session_to_memory(session) is called: line 302 awaits the parent
\* class, where the call may be suspended while other calls run
AddBegin(user_id, session_id, state) ==
    /\ AddsMade < MaxAdds
    /\ mem_calls' = [mem_calls EXCEPT !.pending =
          Append(@, [key |-> MemKey(user_id, session_id), session |-> state,
                     began |-> AddsMade + 1])]
    /\ UNCHANGED <<schedVars, sessions, calls, ret, mem_cache, mem_db, calc>>

\* the parent class returns: lines 304-309 write the cache and persist the
\* session.  The write may fail (logged, rolled back) and sqlite3.connect
\* may fail (the exception leaves add_session_to_memory).
AddFinish(i, io) ==
    /\ i \in 1..Len(mem_calls.pending)
    /\ LET c == mem_calls.pending[i]
           m == add_session_to_memory(mem_cache, mem_db, c.key, c.session, io = "ok")
       IN  /\ mem_cache' = m.cache
           /\ mem_db' = m.db
           /\ mem_calls' =
                 [pending |-> [k \in 1..(Len(mem_calls.pending) - 1) |->
                                  IF k < i THEN mem_calls.pending[k]
                                  ELSE mem_calls.pending[k + 1]],
                  ended |-> Append(mem_calls.ended,
                                   [op |-> "add", key |-> c.key,
                                    session |-> c.session,
                                    began |-> c.began, io |-> io,
                                    outcome |-> IF io = "connect fails"
                                                THEN "raised" ELSE "returned"])]
    /\ UNCHANGED <<schedVars, sessions, calls, ret, calc>>

MemInit == SchedQuiet /\ SessInit

MemNext ==
    \/ \E u \in Users, sid \in MemSessionIds, st \in MemStates : AddBegin(u, sid, st)
    \/ \E i \in 1..MaxAdds, io \in {"ok", "write fails", "connect fails"} :
          AddFinish(i, io)

MemSpec == MemInit /\ [][MemNext]_vars

\* variant of clear_user_memory that forgets the DELETE
clear_user_memory_cache_only(cache, db, app_name, user_id, deleted) ==
    [cache |-> [k \in {x \in DOMAIN cache : ~(x[1] = app_name /\ x[2] = user_id)}
                   |-> cache[k]],
     db |-> db]

\* clear_user_memory(app_name, user_id), lines 339-361: the keys of the user
\* are deleted from the cache, then the rows of the user from the table
\* unless the database fails
clear_user_memory(cache, db, app_name, user_id, deleted) ==
    [cache |-> [k \in {x \in DOMAIN cache : ~(x[1] = app_name /\ x[2] = user_id)}
                   |-> cache[k]],
     db |-> IF deleted
            THEN {row \in db : ~(row.key[1] = app_name /\ row.key[2] = user_id)}
            ELSE db]

\* variant of load_sessions_from_database that loads nothing
load_sessions_skipped(db) == [k \in {} |-> EmptyState]

\* _load_sessions_from_database, lines 261-289: every row of the table is
\* unpickled and cached under its key
load_sessions_from_database(db) ==
    [k \in {row.key : row \in db} |->
        pickle_loads((CHOOSE row \in db : row.key = k).session_data)]

\* the memory service over its life: sessions of two users are added, a
\* user's memory is cleared, the process restarts
StoreUsers == {"u1", "u2"}

StoreSessions ==
    { [user_id |-> "u1", id |-> <<"s1">>, state |-> EmptyState],
      [user_id |-> "u1", id |-> <<"s1">>, state |-> Put(EmptyState, STATE_PAUSED, TRUE)],
      [user_id |-> "u2", id |-> <<"s1">>, state |-> EmptyState] }

StoreOpsMade ==
    Cardinality({k \in 1..Len(mem_calls.ended) :
                    mem_calls.ended[k].op \in {"clear", "restart"}})

\* clear_user_memory(app_name, user_id) is called.  A database error (at
\* connect, or in the DELETE, which has a finally but no except clause)
\* leaves the function as an exception, after the cache was cleared.
ClearUserMemory(app_name, user_id, io) ==
    /\ StoreOpsMade < MaxStoreOps
    /\ LET m == clear_user_memory(mem_cache, mem_db, app_name, user_id, io = "ok")
       IN  /\ mem_cache' = m.cache
           /\ mem_db' = m.db
    /\ mem_calls' = [mem_calls EXCEPT !.ended =
          Append(@, [op |-> "clear", app_name |-> app_name, user_id |-> user_id,
                     io |-> io,
                     outcome |-> IF io = "ok" THEN "returned" ELSE "raised"])]
    /\ UNCHANGED <<schedVars, sessions, calls, ret, calc>>

\* the process restarts: the calls in flight are gone, a new
\* DatabaseMemoryService is constructed over the same database file (lines
\* 218-229).  When reading the table fails, the error is logged and the
\* cache stays empty (lines 287-288).
Restart(io) ==
    /\ StoreOpsMade < MaxStoreOps
    /\ mem_cache' = IF io = "ok" THEN load_sessions_from_database(mem_db)
                    ELSE [k \in {} |-> EmptyState]
    /\ mem_calls' = [pending |-> <<>>,
                     ended |-> Append(mem_calls.ended, [op |-> "restart", io |-> io])]
    /\ UNCHANGED <<schedVars, sessions, calls, ret, mem_db, calc>>

\* (one add_session_to_memory call at a time here; overlapping calls are the
\* subject of MemSpec)
StoreNext ==
    \/ \E x \in StoreSessions :
          mem_calls.pending = <<>> /\ AddBegin(x.user_id, x.id, x.state)
    \/ \E io \in {"ok", "write fails"} : AddFinish(1, io)
    \/ \E u \in StoreUsers, io \in {"ok", "delete fails"} :
          ClearUserMemory(APP_NAME, u, io)
    \/ \E io \in {"ok", "read fails"} : Restart(io)

StoreSpec == MemInit /\ [][StoreNext]_vars

\* the calculator alone: calculate_anc_schedule is called with LMP strings of
\* every layout, for dates from MaxWeeksBack weeks ago to two weeks ahead, at
\* midnight or later in the day
LmpInputs ==
    {DateStr(d) : d \in (Today - 7 * MaxWeeksBack)..(Today + 14)}
        \cup {[form |-> "DD-MM-YYYY", day |-> Today - 63],
              [form |-> "text", day |-> 0]}

Calculate(lmp_date) ==
    /\ calc' = [op |-> "calculate_anc_schedule", lmp_date |-> lmp_date,
                current |-> now,
                result |-> calculate_anc_schedule(lmp_date, now)]
    /\ UNCHANGED <<schedVars, sessVars, mem_calls>>

CalcInit ==
    /\ test_mode = FALSE
    /\ pregnancy_data_source = [kind |-> "callable", data |-> <<>>]
    /\ reminder_handler = "custom"
    /\ is_running = FALSE
    /\ check_count = 0
    /\ reminders_sent = 0
    /\ scheduler = [state |-> "stopped", jobs |-> <<>>]
    /\ now \in {Clock(Today, 0), Clock(Today, 1)}
    /\ runs = [r \in 1..MaxRuns |-> NoRun]
    /\ last_call = "init"
    /\ SessInit

CalcNext == \E lmp_date \in LmpInputs : Calculate(lmp_date)

CalcSpec == CalcInit /\ [][CalcNext]_vars

\* ================================================================ claims
InFlight(r) == runs[r].pc \in {"fetch", "deliver"}

Done(r) == runs[r].pc = "done"

\* C1: within one run the delivery handler is called exactly once for every
\* reminder built, in spite of calls that raise, and the run returns a result
\* with status 'success'
C1_DeliveryFailureIsolated ==
    \A r \in 1..MaxRuns :
        /\ (runs[r].pc = "deliver" =>
               runs[r].invoked = SubSeq(runs[r].reminders, 1, runs[r].idx))
        /\ (Done(r) /\ runs[r].reminders # <<>> =>
               /\ runs[r].invoked = runs[r].reminders
               /\ runs[r].result.status = "success")

C1_Witness ==
    \E r \in 1..MaxRuns :
        /\ Done(r) /\ runs[r].raisedEarly
        /\ Len(runs[r].reminders) >= 2
        /\ runs[r].invoked = runs[r].reminders
        /\ runs[r].result.status = "success"

LifecycleFrame == <<is_running, check_count, reminders_sent, scheduler, runs>>

\* C6: is_running is false after construction, true after start(), false
\* after stop(); start() while running and stop() while stopped change
\* nothing; is_running always reflects the last of the start/stop calls
C6_LifecycleStateMachine ==
    /\ ~is_running
    /\ [][/\ (start => is_running')
          /\ (stop => ~is_running')
          /\ (start /\ is_running => UNCHANGED LifecycleFrame)
          /\ (stop /\ ~is_running => UNCHANGED LifecycleFrame)]_vars
    /\ [](last_call \in {"start", "restart"} => is_running)
    /\ [](last_call \in {"init", "stop"} => ~is_running)

C6_Witness ==
    /\ last_call = "restart" /\ is_running
    /\ scheduler.state = "running"

\* C7: whenever the scheduler is not running, get_stats() reports next_run as
\* null
C7_NextRunNullWhenStopped ==
    ~is_running => get_stats.next_run = <<>>

\* C8: at most one recurring trigger is registered, and exactly one while the
\* scheduler is running, also after start, stop, start again
C8_SingleTrigger ==
    /\ Len(scheduler.jobs) <= 1
    /\ (is_running => Len(scheduler.jobs) = 1)

C8_Witness ==
    /\ last_call = "restart" /\ is_running
    /\ Len(scheduler.jobs) = 1

\* C9: every run returns a check_number strictly greater than the one
\* returned by every run that began before it (runs are numbered in the order
\* they began)
C9_CheckNumberStrictlyIncreasing ==
    \A r1, r2 \in 1..MaxRuns :
        (r1 < r2 /\ Done(r1) /\ Done(r2)) =>
            runs[r2].result.check_number > runs[r1].result.check_number

RecPos(records, record) ==
    CHOOSE i \in 1..Len(records) : records[i] = record

\* reminder a comes before reminder b in building order: record order, then
\* the upcoming reminder, then the overdue ones by visit number
BuiltBefore(records, a, b) ==
    \/ RecPos(records, a.record) < RecPos(records, b.record)
    \/ /\ a.record = b.record
       /\ \/ a.type = "upcoming" /\ b.type = "overdue"
          \/ /\ a.type = "overdue" /\ b.type = "overdue"
             /\ a.visit.visit_number < b.visit.visit_number

\* C10: within one run the handler is called for the reminders one at a time
\* in building order; the call for a reminder starts only when the call for
\* the previous one has returned or raised
C10_SequentialDispatch ==
    \A r \in 1..MaxRuns :
        /\ \A i, j \in 1..Len(runs[r].reminders) :
              i < j => BuiltBefore(runs[r].records, runs[r].reminders[i],
                                   runs[r].reminders[j])
        /\ \A i \in 1..Len(runs[r].invoked) :
              runs[r].invoked[i] = runs[r].reminders[i]
        /\ (runs[r].pc = "deliver" => Len(runs[r].invoked) = runs[r].idx)

C10_Witness ==
    \E r \in 1..MaxRuns :
        /\ runs[r].pc = "deliver" /\ runs[r].idx = 2
        /\ runs[r].reminders[1].type = "upcoming"
        /\ runs[r].reminders[2].type = "overdue"
        /\ runs[r].reminders[1].record = runs[r].reminders[2].record
        /\ Len(runs[r].invoked) = 2

\* C2: when the runtime raises during the delivery of a reminder,
\* resume_session_for_reminder returns a structured failure (status 'error'),
\* not a success result
C2_RuntimeFailureReported ==
    \A c \in 1..Len(calls) :
        (calls[c].op = "reminder" /\ calls[c].runtime = "raised") =>
            calls[c].result.status = "error"

IsPaused(S, user_id, session_id) ==
    /\ <<user_id, session_id>> \in DOMAIN S
    /\ STATE_PAUSED \in DOMAIN S[<<user_id, session_id>>]
    /\ S[<<user_id, session_id>>][STATE_PAUSED] = TRUE

RECURSIVE RemindersDue(_, _, _)
RemindersDue(records, i, current) ==
    IF i > Len(records) THEN 0
    ELSE LET res == calculate_anc_schedule(records[i].lmp_date, current)
             n == IF res.status # "success" THEN 0
                  ELSE (IF /\ res.next_visit # <<>>
                           /\ res.next_visit[1].days_until \in 0..7
                        THEN 1 ELSE 0)
                       + Cardinality({k \in 1..Len(res.anc_schedule) :
                                         res.anc_schedule[k].status = "overdue"})
         IN  n + RemindersDue(records, i + 1, current)

\* C11: a successful run returns records_checked equal to the number of
\* records fetched and reminders_sent equal to the number of records whose
\* next_visit is 0..7 days ahead plus the number of overdue visits of all
\* records
C11_SummaryCounts ==
    \A r \in 1..MaxRuns :
        (Done(r) /\ runs[r].result.status = "success") =>
            /\ runs[r].result.records_checked = Len(runs[r].records)
            /\ runs[r].result.reminders_sent = RemindersDue(runs[r].records, 1, now)

C11_Witness ==
    \E r \in 1..MaxRuns :
        /\ Done(r) /\ runs[r].result.status = "success"
        /\ RBad \in Range(runs[r].records)
        /\ runs[r].result.records_checked = 2
        /\ runs[r].result.reminders_sent = 2

FetchFailed(r) ==
    /\ Done(r)
    /\ runs[r].result.status = "error"
    /\ runs[r].result.error = "fetch failed"

\* C12: when the record fetch raises, the run returns a result with status
\* 'error' carrying the error text and check_number, its handler is never
\* called, and is_running and the registered trigger stay as they are, so the
\* trigger can fire again
C12_FetchFailureReported ==
    /\ [][\A r \in 1..MaxRuns :
            FetchRaise(r) =>
               /\ runs'[r].pc = "done"
               /\ runs'[r].result.status = "error"
               /\ DOMAIN runs'[r].result = {"status", "error", "check_number"}
               /\ runs'[r].invoked = <<>>
               /\ UNCHANGED <<is_running, scheduler, reminders_sent>>]_vars
    /\ [](\A r \in 1..MaxRuns : FetchFailed(r) => runs[r].invoked = <<>>)
    /\ []((is_running /\ \E r \in 1..MaxRuns : FetchFailed(r)) => TriggerArmed)

C12_Witness ==
    \E r1, r2 \in 1..MaxRuns :
        /\ r1 < r2
        /\ runs[r1].kind = "fired" /\ FetchFailed(r1)
        /\ runs[r2].kind = "fired" /\ runs[r2].pc # "none"
        /\ is_running

Calculated == calc.op = "calculate_anc_schedule" /\ calc.result.status = "success"

\* C13: next_visit is null exactly when no visit has status upcoming or
\* due_now, and otherwise is the earliest visit with one of these statuses
C13_NextVisitEarliestOpen ==
    Calculated =>
        LET schedule == calc.result.anc_schedule
            open == {i \in 1..Len(schedule) :
                        schedule[i].status \in {"upcoming", "due_now"}}
        IN  IF open = {} THEN calc.result.next_visit = <<>>
            ELSE /\ calc.result.next_visit # <<>>
                 /\ calc.result.next_visit[1].visit_number =
                       schedule[CHOOSE i \in open : \A j \in open : i <= j].visit_number

\* C14: the status of every visit follows from days_until with the exact
\* boundaries -7, 0 and 14, and overdue_visits lists all visits with status
\* overdue, and only those
C14_StatusBoundaries ==
    Calculated =>
        LET schedule == calc.result.anc_schedule
            overdue == calc.result.overdue_visits
        IN  /\ \A i \in 1..Len(schedule) :
                  LET d == schedule[i].days_until
                      st == schedule[i].status
                  IN  /\ st = "overdue" <=> d < -7
                      /\ st = "due_now" <=> (-7 <= d /\ d < 0)
                      /\ st = "upcoming" <=> (0 <= d /\ d <= 14)
                      /\ st = "scheduled" <=> d > 14
            /\ {overdue[k].visit_number : k \in 1..Len(overdue)} =
                  {schedule[i].visit_number :
                      i \in {j \in 1..Len(schedule) : schedule[j].status = "overdue"}}
            /\ Len(overdue) =
                  Cardinality({j \in 1..Len(schedule) : schedule[j].status = "overdue"})

C14_Witness ==
    /\ Calculated
    /\ \E i \in 1..Len(calc.result.anc_schedule) :
          /\ calc.result.anc_schedule[i].days_until = -7
          /\ calc.result.anc_schedule[i].status = "due_now"
    /\ Len(calc.result.overdue_visits) >= 2

StatusAtWeek(week) ==
    LET schedule == calc.result.anc_schedule
    IN  schedule[CHOOSE i \in 1..Len(schedule) : schedule[i].week = week].status

Lmp36WeeksAgo == Calculated /\ calc.lmp_date = DateStr(calc.current.day - 7 * 36)

\* C16 as stated: for an LMP exactly 36 weeks before now the visits of weeks
\* 10, 20 and 26 are overdue and those of weeks 30, 34, 36, 38 and 40 are
\* upcoming or scheduled
C16_Week36Scenario ==
    Lmp36WeeksAgo =>
        /\ \A w \in {10, 20, 26} : StatusAtWeek(w) = "overdue"
        /\ \A w \in {30, 34, 36, 38, 40} :
              StatusAtWeek(w) \in {"upcoming", "scheduled"}

\* C16 amended: for an LMP exactly 36 weeks before now the visits of weeks 10,
\* 20, 26, 30 and 34 are overdue, the visit of week 36 falls today (upcoming
\* at midnight, due_now later in the day), the visit of week 38 is upcoming
\* and the visit of week 40 is scheduled
C16_Week36ScenarioAmended ==
    Lmp36WeeksAgo =>
        /\ \A w \in {10, 20, 26, 30, 34} : StatusAtWeek(w) = "overdue"
        /\ StatusAtWeek(36) = (IF calc.current.tod = 0 THEN "upcoming" ELSE "due_now")
        /\ StatusAtWeek(38) = "upcoming"
        /\ StatusAtWeek(40) = "scheduled"

C16_Witness ==
    /\ Lmp36WeeksAgo
    /\ calc.current.tod > 0
    /\ Len(calc.result.overdue_visits) = 5
    /\ StatusAtWeek(36) = "due_now"

Unparseable(lmp_date) == lmp_date.form # "YYYY-MM-DD"

\* C15: for an LMP string that is not a YYYY-MM-DD date the calculator
\* returns an error result without a visit list; a check run builds no
\* reminder for such a record and still builds and dispatches the reminders
\* of the other records
C15_BadLmpSkipped ==
    /\ \A lmp_date \in {s \in LmpInputs : Unparseable(s)} :
          LET res == calculate_anc_schedule(lmp_date, now)
          IN  /\ res.status = "error"
              /\ "anc_schedule" \notin DOMAIN res
    /\ \A r \in 1..MaxRuns :
          LET records == runs[r].records
              bad == {i \in 1..Len(records) :
                         /\ "lmp_date" \in DOMAIN records[i]
                         /\ Unparseable(records[i].lmp_date)}
          IN  (bad # {} /\ runs[r].pc \in {"deliver", "done"}) =>
                /\ calculate_anc_schedule(records[CHOOSE i \in bad : TRUE].lmp_date,
                                          now).status = "error"
                /\ \A k \in 1..Len(runs[r].reminders), i \in bad :
                      runs[r].reminders[k].record # records[i]
                /\ (\A i \in 1..Len(records) : "lmp_date" \in DOMAIN records[i]) =>
                      /\ \A i \in (1..Len(records)) \ bad :
                            Range(RemindersFor(records[i], now))
                               \subseteq Range(runs[r].reminders)
                      /\ Done(r) => runs[r].invoked = runs[r].reminders

C15_Witness ==
    \E r \in 1..MaxRuns :
        /\ Done(r)
        /\ runs[r].records = <<RBad, R19>>
        /\ Len(runs[r].reminders) = 2
        /\ \A k \in 1..2 : runs[r].reminders[k].record = R19
        /\ runs[r].invoked = runs[r].reminders
        /\ runs[r].result.status = "success"

UserHasSession(S, user_id) == \E k \in DOMAIN S : k[1] = user_id

LastCall == calls'[Len(calls')]

\* C17: a reminder sent without a session_id to a user who has a session is
\* delivered under one of the user's existing sessions and creates none; a
\* session is created only for a user without sessions and with
\* create_if_missing set
C17_ReminderReusesSession ==
    [][\A u \in Users, msg \in ReminderMessages, create \in BOOLEAN :
         Reminder(u, msg, None, create) =>
            /\ UserHasSession(sessions, u) =>
                  /\ DOMAIN sessions' = DOMAIN sessions
                  /\ <<u, LastCall.session_id>> \in DOMAIN sessions
                  /\ LastCall.session_existed
            /\ DOMAIN sessions' # DOMAIN sessions =>
                  (~UserHasSession(sessions, u) /\ create)]_vars

\* C18: for a user without sessions, resume_session_for_reminder with
\* create_if_missing creates exactly one session, calls the runtime under it
\* and returns success with session_existed false and reminder_delivered
\* true; without create_if_missing it returns an error, creates no session
\* and does not call the runtime
C18_ReminderForUnknownUser ==
    /\ [][\A u \in Users, msg \in ReminderMessages,
             sid \in SessionIds \cup {None}, create \in BOOLEAN :
            (Reminder(u, msg, sid, create) /\ ~UserHasSession(sessions, u)) =>
               IF create
               THEN /\ DOMAIN sessions' = DOMAIN sessions \cup {<<u, LastCall.session_id>>}
                    /\ <<u, LastCall.session_id>> \notin DOMAIN sessions
                    /\ LastCall.pc = "runtime"
                    /\ LastCall.sent # <<>>
                    /\ ~LastCall.session_existed
               ELSE /\ sessions' = sessions
                    /\ LastCall.pc = "done"
                    /\ LastCall.runtime = "not called"
                    /\ LastCall.sent = <<>>
                    /\ LastCall.result.status = "error"]_vars
    /\ [](\A c \in 1..Len(calls) :
            (/\ calls[c].op = "reminder"
             /\ ~calls[c].session_existed
             /\ calls[c].pc = "done"
             /\ calls[c].runtime # "not called") =>
               /\ calls[c].result.status = "success"
               /\ calls[c].result.session_existed = FALSE
               /\ calls[c].result.reminder_delivered = TRUE
               /\ calls[c].result.session_id = calls[c].session_id)

C18_Witness ==
    /\ Len(calls) >= 1
    /\ calls[1].op = "reminder"
    /\ ~calls[1].session_existed
    /\ calls[1].pc = "done" /\ calls[1].runtime = "returned"
    /\ calls[1].result.status = "success"
    /\ Cardinality(DOMAIN sessions) = 1

\* C19: with the default handler every reminder a check run dispatches goes
\* through resume_session_for_reminder: a call for the record's user exists,
\* under a session of that user, with the runtime invoked
C19_DefaultHandlerUsesCoordinator ==
    reminder_handler = "default" =>
        \A r \in 1..MaxRuns : \A k \in 1..Len(runs[r].invoked) :
            \E c \in 1..Len(calls) :
                /\ calls[c].op = "reminder"
                /\ calls[c].user_id = runs[r].invoked[k].record.phone
                /\ <<calls[c].user_id, calls[c].session_id>> \in DOMAIN sessions
                /\ calls[c].sent # <<>>

\* the calls for a key that have ended, in the order they ended
EndedFor(key) == SelectSeq(mem_calls.ended, LAMBDA e : e.key = key)

\* C20: as long as no persistence failure has occurred, for every key the
\* cache and the sessions table hold the same session, the one of the call
\* for that key that ended last, and the table has one row for the key
C20_WriteThroughLastWins ==
    (\A k \in 1..Len(mem_calls.ended) : mem_calls.ended[k].io = "ok") =>
        /\ DOMAIN mem_cache = {row.key : row \in mem_db}
        /\ DOMAIN mem_cache = {mem_calls.ended[k].key : k \in 1..Len(mem_calls.ended)}
        /\ \A key \in DOMAIN mem_cache :
              LET rows == {row \in mem_db : row.key = key}
                  last == EndedFor(key)[Len(EndedFor(key))]
              IN  /\ Cardinality(rows) = 1
                  /\ \A row \in rows : pickle_loads(row.session_data) = mem_cache[key]
                  /\ mem_cache[key] = last.session

C20_Witness ==
    /\ Len(mem_calls.ended) = 2
    /\ mem_calls.ended[1].began = 2 /\ mem_calls.ended[2].began = 1
    /\ mem_calls.ended[1].key = mem_calls.ended[2].key
    /\ mem_calls.ended[1].session # mem_calls.ended[2].session
    /\ mem_calls.ended[1].io = "ok" /\ mem_calls.ended[2].io = "ok"
    /\ mem_cache[mem_calls.ended[2].key] = mem_calls.ended[2].session
    /\ Cardinality(mem_db) = 1

LastEnded == mem_calls'.ended[Len(mem_calls'.ended)]

\* C21: when persisting the session fails, add_session_to_memory raises
\* nothing, the sessions table keeps the rows it had and the cache holds the
\* new session under the key
C21_PersistFailureKeepsStore ==
    [][\A i \in 1..MaxAdds, io \in {"write fails", "connect fails"} :
         AddFinish(i, io) =>
            /\ LastEnded.outcome = "returned"
            /\ mem_db' = mem_db
            /\ mem_calls.pending[i].key \in DOMAIN mem_cache'
            /\ mem_cache'[mem_calls.pending[i].key] = mem_calls.pending[i].session]_vars

OfUser(key, app_name, user_id) == key[1] = app_name /\ key[2] = user_id

\* C22: when clear_user_memory(app, user) has returned, neither the cache nor
\* the sessions table holds a session of that (app, user); the sessions of
\* every other (app, user) are as before in both, whether or not the call
\* returned
C22_ClearUserMemoryFrame ==
    [][\A u \in StoreUsers, io \in {"ok", "delete fails"} :
         ClearUserMemory(APP_NAME, u, io) =>
            /\ io = "ok" =>
                  /\ LastEnded.outcome = "returned"
                  /\ \A k \in DOMAIN mem_cache' : ~OfUser(k, APP_NAME, u)
                  /\ \A row \in mem_db' : ~OfUser(row.key, APP_NAME, u)
            /\ \A k \in DOMAIN mem_cache :
                  ~OfUser(k, APP_NAME, u) =>
                      (k \in DOMAIN mem_cache' /\ mem_cache'[k] = mem_cache[k])
            /\ \A k \in DOMAIN mem_cache' : k \in DOMAIN mem_cache
            /\ {row \in mem_db' : ~OfUser(row.key, APP_NAME, u)} =
                  {row \in mem_db : ~OfUser(row.key, APP_NAME, u)}]_vars

C22_Witness ==
    /\ Len(mem_calls.ended) = 3
    /\ mem_calls.ended[1].op = "add" /\ mem_calls.ended[1].io = "ok"
    /\ mem_calls.ended[2].op = "add" /\ mem_calls.ended[2].io = "ok"
    /\ mem_calls.ended[1].key = MemKey("u1", <<"s1">>)
    /\ mem_calls.ended[2].key = MemKey("u2", <<"s1">>)
    /\ mem_calls.ended[3].op = "clear" /\ mem_calls.ended[3].io = "ok"
    /\ mem_calls.ended[3].user_id = "u1"
    /\ DOMAIN mem_cache = {MemKey("u2", <<"s1">>)}
    /\ {row.key : row \in mem_db} = {MemKey("u2", <<"s1">>)}

\* the calls that ended, returned and changed what the table holds under key
Affecting(key) ==
    {k \in 1..Len(mem_calls.ended) :
        LET e == mem_calls.ended[k]
        IN  \/ e.op = "add" /\ e.io = "ok" /\ e.key = key
            \/ e.op = "clear" /\ e.io = "ok" /\ OfUser(key, e.app_name, e.user_id)}

StoreKeys == {MemKey(x.user_id, x.id) : x \in StoreSessions}

Fetched(r) == runs[r].pc \in {"deliver", "done"} /\ runs[r].result.status # "error"

\* C25: two runs over the same records at the same clock value build the same
\* sequence of reminders, and dispatch the same sequence, whether the handler
\* calls of the earlier run returned or raised
C25_NoDedupAcrossRuns ==
    \A r1, r2 \in 1..MaxRuns :
        (r1 < r2 /\ Fetched(r1) /\ Fetched(r2)
                 /\ runs[r1].records = runs[r2].records) =>
            /\ runs[r2].reminders = runs[r1].reminders
            /\ (Done(r1) /\ Done(r2)) => runs[r2].invoked = runs[r1].invoked

C25_Witness ==
    /\ Done(1) /\ Done(2)
    /\ runs[1].raisedEarly
    /\ runs[1].records = runs[2].records
    /\ Len(runs[1].invoked) >= 2
    /\ runs[2].invoked = runs[1].invoked

\* C26: at every instant at most one call of the delivery handler is in
\* flight for the scheduler
C26_OneDeliveryInFlight ==
    Cardinality({r \in 1..MaxRuns : runs[r].pc = "deliver"}) <= 1

RECURSIVE SumSent(_)
SumSent(r) ==
    IF r = 0 THEN 0
    ELSE (IF Done(r) /\ runs[r].result.status = "success"
          THEN runs[r].result.reminders_sent ELSE 0) + SumSent(r - 1)

\* C27: once the runs that were started have ended, get_stats() reports as
\* total_checks the number of runs started and as total_reminders_sent the
\* sum of the reminders_sent values the successful runs returned
C27_CountersMatchSummaries ==
    (\A r \in 1..MaxRuns : runs[r].pc \in {"none", "done"}) =>
        /\ get_stats.total_checks = Cardinality({r \in 1..MaxRuns : Done(r)})
        /\ get_stats.total_reminders_sent = SumSent(MaxRuns)


\* the schedule entry of the visit a reminder is about
VisitOf(m) ==
    calculate_anc_schedule(m.record.lmp_date, now).anc_schedule[m.visit.visit_number]

\* C28: in the list a run builds, no reminder is about a visit classified
\* due_now; an upcoming reminder is about a visit 0 to 7 days ahead, an
\* overdue reminder about a visit more than 7 days past, and no visit of a
\* record has two reminders
C28_DueNowNeverReminded ==
    [][\A r \in 1..MaxRuns :
        (~Fetched(r) /\ Fetched(r)') =>
            LET ms == runs'[r].reminders
            IN  /\ \A k \in 1..Len(ms) :
                     /\ VisitOf(ms[k]).status # "due_now"
                     /\ ms[k].type = "upcoming" =>
                            VisitOf(ms[k]).days_until \in 0..7
                     /\ ms[k].type = "overdue" =>
                            VisitOf(ms[k]).days_until < -7
                /\ \A j, k \in 1..Len(ms) :
                     (j # k /\ ms[j].record = ms[k].record) =>
                         ms[j].visit.visit_number # ms[k].visit.visit_number]_vars

\* a run ended over a record that has a visit classified due_now and earlier
\* visits that were reminded as overdue
C28_Witness ==
    \E r \in 1..MaxRuns :
        /\ Done(r) /\ Fetched(r)
        /\ \E i \in 1..Len(runs[r].records) :
             LET res == calculate_anc_schedule(runs[r].records[i].lmp_date, now)
             IN  /\ res.status = "success"
                 /\ \E n \in 1..Len(res.anc_schedule) :
                      /\ res.anc_schedule[n].status = "due_now"
                      /\ res.anc_schedule[n].days_until \in (-7)..(-1)
                 /\ \E k \in 1..Len(runs[r].reminders) :
                      runs[r].reminders[k].record = runs[r].records[i]


\* some fetched record of run r has no lmp_date field
Unclassifiable(r) ==
    \E i \in 1..Len(runs[r].records) : "lmp_date" \notin DOMAIN runs[r].records[i]

\* C29: a run in which classifying a record raises returns status "error" and
\* calls the delivery handler for no reminder, also not for the records
\* classified before the failing one; the handler is called only in runs that
\* classified every record
C29_NoDispatchBeforeAllClassified ==
    \A r \in 1..MaxRuns :
        /\ (Unclassifiable(r) /\ runs[r].pc # "fetch") =>
               /\ Done(r)
               /\ runs[r].result.status = "error"
               /\ runs[r].invoked = <<>>
               /\ runs[r].reminders = <<>>
        /\ (runs[r].pc = "deliver" \/ runs[r].invoked # <<>>) =>
               ~Unclassifiable(r)

\* a run ended with "error" over a list whose first record is due a reminder
\* and whose second record has no lmp_date, and the handler was never called
C29_Witness ==
    \E r \in 1..MaxRuns :
        /\ Done(r)
        /\ Len(runs[r].records) = 2
        /\ "lmp_date" \in DOMAIN runs[r].records[1]
        /\ RemindersFor(runs[r].records[1], now) # <<>>
        /\ "lmp_date" \notin DOMAIN runs[r].records[2]
        /\ runs[r].result.status = "error"
        /\ runs[r].invoked = <<>>


\* the resume context resume_consultation builds for a session
ResumeContextOf(S, user_id, session_id) ==
    <<"Welcome back! We were discussing: ",
      Get(S[<<user_id, session_id>>], STATE_LAST_TOPIC, "general consultation")>>

====
